---- MODULE Spec2Model ----
(***************************************************************************)
(* Model of app.py (Math PDF Extractor): the job registry `tasks`, the     *)
(* two-thread pool `executor`, the job body process_task with the page     *)
(* loop of extract_single_pdf_to_df, and the HTTP handlers upload_pdf,     *)
(* get_progress and download_result.                                       *)
(*                                                                         *)
(* Every write to a field of a job record is one step of its own, so that  *)
(* the states a concurrent poll can observe between two writes are states  *)
(* of the model.  Task ids (uuid4) are modelled as fresh ids handed out in *)
(* order of allocation.  The timestamp update_progress puts in front of a  *)
(* message is kept as the flag `stamped` of the log entry.                 *)
(*                                                                         *)
(* Texts and file names are sequences of characters, so that strip, the    *)
(* regular expressions of classify_question and of the split, basename,    *)
(* splitext and the f-strings that build file names are computed.          *)
(***************************************************************************)
EXTENDS Integers, Sequences, FiniteSets, TLC

(***************************************************************************)
(* Bounds of the model.                                                    *)
(***************************************************************************)
MaxJobs == 3        \* uploads accepted in Spec
MaxPages == 2       \* largest page count of a document in Spec
BigPages == 101     \* largest page count of the one document of SpecBig
ApiJobs == 1        \* uploads accepted in SpecApi
FileJobs == 2       \* uploads accepted in SpecFiles
MaxText == 4        \* longest text given to classify_question and to the split

(***************************************************************************)
(* Program constants.                                                      *)
(***************************************************************************)
max_workers == 2    \* ThreadPoolExecutor(max_workers=2)
START_PERCENT == 1  \* update_progress(task_id, percent=1, ...)
DONE_PERCENT == 100 \* update_progress(task_id, percent=100, ...)
MANT == 53          \* bits of the significand of a Python float (IEEE double)

\* mutant: a pool of one thread more
WorkersOneMore == 1..(max_workers + 1)

Workers == 1..max_workers

(***************************************************************************)
(* Python float arithmetic of  int((pno+1)/total*100)  (line 92).          *)
(* A positive double is <<a, b, c, e>>: its MANT-bit significand is        *)
(* a * 2^(LIMB+LOW) + b * 2^LOW + c with 2^(LIMB-1) <= a < 2^LIMB,         *)
(* b < 2^LIMB and c < 2^LOW, scaled by 2^e.  Division and multiplication   *)
(* round to nearest, ties to even; int() truncates.  The limbs keep every  *)
(* intermediate value below 2^31 for divisors below 2^13.                  *)
(***************************************************************************)
LIMB == 18
LOW == MANT - 2 * LIMB

\* the element of a one-element set: Only({F(v) : v \in {e}}) is F(e) with e
\* evaluated once
Only(S) == CHOOSE v \in S : TRUE

RECURSIVE Normalize(_, _, _)
\* doubles r until n <= r < 2n: <<scaled r, number of doublings>>
Normalize(r, n, z) == IF r >= n THEN <<r, z>> ELSE Normalize(2 * r, n, z + 1)

\* the next `bits` binary digits of r/n (r < n) and the remainder after them
DivStep(r, n, bits) == <<(r * 2^bits) \div n, (r * 2^bits) % n>>

\* the significand <<a, b, c>> plus one; <<2^LIMB, 0, 0>> when it overflows
IncLimbs(a, b, c) ==
    IF c + 1 < 2^LOW THEN <<a, b, c + 1>>
    ELSE IF b + 1 < 2^LIMB THEN <<a, b + 1, 0>>
    ELSE <<a + 1, 0, 0>>

\* rounds the significand <<a, b, c>> followed by a guard bit and a sticky
\* tail, scaled by 2^e, to a double
RoundLimbs(a, b, c, guard, sticky, e) ==
    IF guard = 1 /\ (sticky \/ c % 2 = 1)
    THEN IF IncLimbs(a, b, c)[1] = 2^LIMB
         THEN <<2^(LIMB - 1), 0, 0, e + 1>>
         ELSE IncLimbs(a, b, c) \o <<e>>
    ELSE <<a, b, c, e>>

\* nr / n = 1.xxx (n <= nr < 2n): LIMB-1, LIMB and LIMB more binary digits
\* after the leading 1, the last of them the guard bit
DivThird(qa, qb, r2, n, e) ==
    Only({RoundLimbs(2^(LIMB - 1) + qa, qb, s[1] \div 2, s[1] % 2, s[2] # 0, e) :
            s \in {DivStep(r2, n, LIMB)}})
DivSecond(qa, r1, n, e) ==
    Only({DivThird(qa, s[1], s[2], n, e) : s \in {DivStep(r1, n, LIMB)}})
DivFirst(nr, n, e) ==
    Only({DivSecond(s[1], s[2], n, e) : s \in {DivStep(nr - n, n, LIMB - 1)}})

\* the double k / n for integers 0 < k <= n
FloatDiv(k, n) ==
    Only({DivFirst(nz[1], n, -(MANT - 1) - nz[2]) : nz \in {Normalize(k, n, 0)}})

\* the exact product of the significand of x and f, as <<pa, lb, lc>> with
\* value pa * 2^(LIMB+LOW) + lb * 2^LOW + lc
MulLimbs(x, f) ==
    LET pc == x[3] * f
        pb == x[2] * f + pc \div 2^LOW
    IN  <<x[1] * f + pb \div 2^LIMB, pb % 2^LIMB, pc % 2^LOW>>

\* the number of bits by which pa is longer than LIMB bits
ExtraBits(pa) == CHOOSE i \in 0..LOW : 2^(LIMB + i - 1) <= pa /\ pa < 2^(LIMB + i)

\* drops the d lowest bits of the product and rounds
MulRound(pa, lb, lc, d, e) ==
    IF d = 0 THEN <<pa, lb, lc, e>>
    ELSE RoundLimbs(pa \div 2^d,
                    (pa % 2^d) * 2^(LIMB - d) + lb \div 2^d,
                    (lb % 2^d) * 2^(LOW - d) + lc \div 2^d,
                    (lc \div 2^(d - 1)) % 2,
                    lc % 2^(d - 1) # 0,
                    e + d)

\* the double x * f for a double x and an integer 1 <= f < 2^LOW
FloatMul(x, f) ==
    Only({Only({MulRound(p[1], p[2], p[3], d, x[4]) : d \in {ExtraBits(p[1])}}) :
            p \in {MulLimbs(x, f)}})

\* int(x) for a double 0 < x < 2^LIMB
FloatInt(x) ==
    IF -x[4] - (LIMB + LOW) >= LIMB THEN 0 ELSE x[1] \div 2^(-x[4] - (LIMB + LOW))

\* pct = int((pno+1)/total*100), with done = pno+1
PagePct(done, total) ==
    Only({FloatInt(p) : p \in {FloatMul(q, 100) : q \in {FloatDiv(done, total)}}})

(***************************************************************************)
(* File names: strings as sequences of characters, so that lower() and     *)
(* endswith() are computed.                                                *)
(***************************************************************************)
Lower(ch) ==
    CASE ch = "A" -> "a" [] ch = "B" -> "b" [] ch = "D" -> "d"
      [] ch = "F" -> "f" [] ch = "P" -> "p" [] ch = "T" -> "t"
      [] ch = "X" -> "x" [] OTHER -> ch

StrLower(str) == [i \in 1..Len(str) |-> Lower(str[i])]

EndsWith(str, suffix) ==
    /\ Len(str) >= Len(suffix)
    /\ SubSeq(str, Len(str) - Len(suffix) + 1, Len(str)) = suffix

DOT_PDF == <<".", "p", "d", "f">>

\* line 115, negated: file.filename.lower().endswith('.pdf')
IsPdfName(filename) == EndsWith(StrLower(filename), DOT_PDF)

\* the file names an upload may carry
PdfNames == {<<"a", ".", "p", "d", "f">>, <<"b", ".", "P", "D", "F">>}
OtherNames == {<<"a", ".", "t", "x", "t">>, <<"p", "d", "f">>, <<"a", ".", "p", "d", "f", "x">>}

(***************************************************************************)
(* Log entries.  update_progress writes "<utc timestamp> <message>"        *)
(* (stamped); upload_pdf and the except branch append the bare text.       *)
(***************************************************************************)
Entry(stamped, msg, k, n, name) ==
    [stamped |-> stamped, msg |-> msg, k |-> k, n |-> n, name |-> name]

Uploaded(filename) == Entry(FALSE, "uploaded", 0, 0, filename)
StartMsg == Entry(TRUE, "start processing", 0, 0, <<>>)
PageMsg(k, n) == Entry(TRUE, "processed page", k, n, <<>>)
FinishedMsg == Entry(TRUE, "finished processing", 0, 0, <<>>)
\* str(e) of the exception caught on line 108
ErrorMsg(exc) == Entry(FALSE, exc, 0, 0, <<>>)

\* the exceptions the body can raise, by the call that raises
EXC_OPEN == "fitz.open failed"
EXC_RENDER == "page render failed"
EXC_OCR == "tesseract failed"
EXC_SAVE == "image save failed"
EXC_WRITE == "to_excel failed"
Exceptions == {EXC_OPEN, EXC_RENDER, EXC_OCR, EXC_SAVE, EXC_WRITE}

NoFile == <<>>                                             \* "file": None
OutPath(task_id) == <<"outputs", "result_", task_id, ".xlsx">>    \* line 103
SavePath(token, filename) == [token |-> token, name |-> filename] \* line 118-119

Terminal == {"done", "error"}

(***************************************************************************)
(* Text.  A text is a sequence of characters; a character outside ASCII    *)
(* is written by its code point.                                           *)
(***************************************************************************)
\* the characters \s and str.strip() take for whitespace
Whitespace == {" ", "\n", "\t"}
\* characters \d matches: the ASCII digits and, of the others, fullwidth 1
Digits == {"0", "1", "2", "3", "4", "5", "6", "7", "8", "9", "U+FF11"}
\* [一二三四五六七八九十] (line 76)
CjkNumerals == {"U+4E00", "U+4E8C", "U+4E09", "U+56DB", "U+4E94",
                "U+516D", "U+4E03", "U+516B", "U+4E5D", "U+5341"}
\* [\.\、] and [、．] (line 76)
DigitStops == {".", "U+3001"}
CjkStops == {"U+3001", "U+FF0E"}
\* [_＿] (line 35)
Underscores == {"_", "U+FF3F"}
\* 选择, 填空, 空格 (line 33, 35)
WORD_CHOOSE == <<"U+9009", "U+62E9">>
WORD_FILL == <<"U+586B", "U+7A7A">>
WORD_BLANK == <<"U+7A7A", "U+683C">>

Min(S) == CHOOSE m \in S : \A o \in S : m <= o
Max(S) == CHOOSE m \in S : \A o \in S : m >= o

\* the end of the longest run of characters of `class` that starts at i
RunEnd(text, i, class) ==
    Min({j \in i..(Len(text) + 1) : j > Len(text) \/ text[j] \notin class})

\* str.strip(): without the leading and the trailing whitespace
Strip(text) ==
    LET kept == {i \in 1..Len(text) : text[i] \notin Whitespace}
    IN  IF kept = {} THEN <<>> ELSE SubSeq(text, Min(kept), Max(kept))

\* the literal `word` stands in text at position i
At(text, i, word) ==
    /\ i + Len(word) - 1 <= Len(text)
    /\ SubSeq(text, i, i + Len(word) - 1) = word

\* re.search of a literal: it stands somewhere in text
Contains(text, word) == \E i \in 1..Len(text) : At(text, i, word)

\* line 33: re.search(r'选择|A\.|B\.|C\.|D\.', t)
HasChoiceMarker(t) ==
    \/ Contains(t, WORD_CHOOSE)
    \/ \E letter \in {"A", "B", "C", "D"} : Contains(t, <<letter, ".">>)

\* line 35: re.search(r'[_＿]{2,}|填空|空格', t)
HasBlankMarker(t) ==
    \/ \E i \in 1..Len(t) : RunEnd(t, i, Underscores) >= i + 2
    \/ Contains(t, WORD_FILL)
    \/ Contains(t, WORD_BLANK)

LABEL_CHOICE == "U+9009 U+62E9 U+9898"
LABEL_FILL == "U+586B U+7A7A U+9898"
LABEL_FREE == "U+89E3 U+7B54 U+9898"
Labels == {LABEL_CHOICE, LABEL_FILL, LABEL_FREE}

\* an optional text: <<text>>, or <<>> for None
None == <<>>
Some(text) == <<text>>

\* mutant: the blank test is made before the choice test
ClassifyBlankFirst(text) ==
    LET t == Strip(IF text = None THEN <<>> ELSE text[1])
    IN  IF HasBlankMarker(t) THEN LABEL_FILL
        ELSE IF HasChoiceMarker(t) THEN LABEL_CHOICE
        ELSE LABEL_FREE

\* classify_question (line 31-37)
classify_question(text) ==
    LET t == Strip(IF text = None THEN <<>> ELSE text[1])
    IN  IF HasChoiceMarker(t) THEN LABEL_CHOICE
        ELSE IF HasBlankMarker(t) THEN LABEL_FILL
        ELSE LABEL_FREE

\* line 76: the end of a match of
\* (?:\s*\d+[\.\、]|\s*[一二三四五六七八九十]+[、．]) that starts at i, 0 if none
MarkerEnd(text, i) ==
    LET j == RunEnd(text, i, Whitespace)
        d == RunEnd(text, j, Digits)
        c == RunEnd(text, j, CjkNumerals)
    IN  IF d > j /\ d <= Len(text) /\ text[d] \in DigitStops THEN d + 1
        ELSE IF c > j /\ c <= Len(text) /\ text[c] \in CjkStops THEN c + 1
        ELSE 0

\* (?m)^ : the start of the text and the position after each newline
IsLineStart(text, i) == i = 1 \/ text[i - 1] = "\n"

\* the starts of the marker matches at or after pos
MarkerStarts(text, pos) ==
    {s \in pos..Len(text) : IsLineStart(text, s) /\ MarkerEnd(text, s) > 0}

\* re.split (line 76) of the text from pos on: the pieces between the
\* leftmost non-overlapping matches
RECURSIVE SplitFrom(_, _)
SplitFrom(text, pos) ==
    IF MarkerStarts(text, pos) = {}
    THEN <<SubSeq(text, pos, Len(text))>>
    ELSE LET s == Min(MarkerStarts(text, pos))
         IN  <<SubSeq(text, pos, s - 1)>> \o SplitFrom(text, MarkerEnd(text, s))

\* mutant: the split drops the piece before the first marker
SplitDropFirst(text) == Tail(SplitFrom(text, 1))

ReSplit(text) == SplitFrom(text, 1)

\* line 77-80: the stripped chunks that are not empty
RECURSIVE Segments(_)
Segments(chunks) ==
    IF chunks = <<>> THEN <<>>
    ELSE (IF Strip(Head(chunks)) = <<>> THEN <<>> ELSE <<Strip(Head(chunks))>>)
         \o Segments(Tail(chunks))

\* the first position at or after i that holds `stop`, Len(text) + 1 if none
Find(text, i, stop) ==
    Min({j \in i..(Len(text) + 1) : j > Len(text) \/ text[j] = stop})

\* line 81: a match of \$([^$]+)\$|\\\(([^)]+)\\\) that starts at i, as
\* <<first, last>> of the group, <<>> if none; the match ends on last + width
EqAt(text, i) ==
    IF text[i] = "$"
    THEN (IF Find(text, i + 1, "$") > i + 1 /\ Find(text, i + 1, "$") <= Len(text)
          THEN <<i + 1, Find(text, i + 1, "$") - 1, 1>> ELSE <<>>)
    ELSE IF At(text, i, <<"\\", "(">>)
    THEN (LET j == Find(text, i + 2, ")")
          IN  IF j <= Len(text) /\ j - 2 >= i + 2 /\ text[j - 1] = "\\"
              THEN <<i + 2, j - 2, 2>> ELSE <<>>)
    ELSE <<>>

\* re.findall (line 81-82): the groups of the leftmost non-overlapping matches
RECURSIVE FindEqs(_, _)
FindEqs(text, pos) ==
    LET starts == {i \in pos..Len(text) : EqAt(text, i) # <<>>}
    IN  IF starts = {} THEN <<>>
        ELSE LET m == EqAt(text, Min(starts))
             IN  <<SubSeq(text, m[1], m[2])>> \o FindEqs(text, m[2] + m[3] + 1)

\* ";".join(parts)
RECURSIVE Join(_)
Join(parts) ==
    IF parts = <<>> THEN <<>>
    ELSE IF Len(parts) = 1 THEN parts[1]
    ELSE parts[1] \o <<";">> \o Join(Tail(parts))

(***************************************************************************)
(* Names of the files a job writes.                                        *)
(***************************************************************************)
HexDigits == <<"0", "1", "2", "3", "4", "5", "6", "7", "8", "9",
               "a", "b", "c", "d", "e", "f">>
HEX_WIDTH == 2      \* a bound: 32 in uuid4().hex, any fixed width keeps names apart
\* uuid.uuid4().hex of the uuid numbered token: a hex string of fixed width
RECURSIVE HexOf(_, _)
HexOf(token, width) ==
    IF width = 0 THEN <<>>
    ELSE HexOf(token \div 16, width - 1) \o <<HexDigits[(token % 16) + 1]>>
Hex(token) == HexOf(token, HEX_WIDTH)

\* str(n) of a natural number
RECURSIVE Dec(_)
Dec(n) == IF n < 10 THEN <<HexDigits[n + 1]>>
          ELSE Dec(n \div 10) \o <<HexDigits[(n % 10) + 1]>>

\* line 118: fname = f"{uuid.uuid4().hex}_{file.filename}"
Fname(path) == Hex(path.token) \o <<"_">> \o path.name

\* the file name holds a path separator
HasSep(filename) == \E i \in 1..Len(filename) : filename[i] = "/"

\* mutant: the name the client gave, without the uuid
BasenameOriginal(path) == path.name

\* os.path.basename(pdf_path): what follows the last separator
Basename(path) ==
    LET seps == {i \in 1..Len(Fname(path)) : Fname(path)[i] = "/"}
    IN  IF seps = {} THEN Fname(path)
        ELSE SubSeq(Fname(path), Max(seps) + 1, Len(Fname(path)))

\* os.path.splitext(name)[0]: up to the last dot that follows a character
\* other than a dot
Stem(name) ==
    LET dots == {i \in 1..Len(name) :
                   name[i] = "." /\ \E j \in 1..(i - 1) : name[j] # "."}
    IN  IF dots = {} THEN name ELSE SubSeq(name, 1, Max(dots) - 1)

\* line 61: f"{basename}_p{pno+1}.png"
PageImageName(path, pno) ==
    Basename(path) \o <<"_", "p">> \o Dec(pno + 1) \o <<".", "p", "n", "g">>

\* line 70: f"{splitext(basename)[0]}_p{pno+1}_{ii}.{ext}"
EmbeddedName(path, pno, ii, ext) ==
    Stem(Basename(path)) \o <<"_", "p">> \o Dec(pno + 1) \o <<"_">> \o Dec(ii)
      \o <<".">> \o ext

\* os.path.join(IMG_DIR, name)
ImgPath(name) == <<"images/">> \o name

\* line 63-74: the names of the embedded images of a page, in order
EmbeddedNames(path, pno, images) ==
    [i \in 1..Len(images) |-> EmbeddedName(path, pno, i - 1, images[i])]

\* the names written for a page, in the order of the writes (line 62, 72-73)
PageWrites(path, pno, images) ==
    <<PageImageName(path, pno)>> \o EmbeddedNames(path, pno, images)

(***************************************************************************)
(* Rows and the result table.                                              *)
(***************************************************************************)
\* line 60: combined_text = (text + "\n" + ocr_text).strip()
Combined(text, ocr_text) == Strip(text \o <<"\n">> \o ocr_text)

\* line 83-90: the row of one chunk
Row(path, pno, chunk, images) ==
    [source_file |-> Basename(path),
     page |-> pno + 1,
     raw_text |-> chunk,
     question_type |-> classify_question(Some(chunk)),
     inline_equations |-> Join(FindEqs(chunk, 1)),
     local_images |->
        Join([i \in 1..(Len(images) + 1) |->
                ImgPath((EmbeddedNames(path, pno, images)
                           \o <<PageImageName(path, pno)>>)[i])])]

\* line 76-90: the rows of one page
PageRows(path, pno, combined_text, images) ==
    Only({[i \in 1..Len(chunks) |-> Row(path, pno, chunks[i], images)] :
            chunks \in {Segments(ReSplit(combined_text))}})

\* the keys of a row dict, in insertion order (line 84-89)
ROW_KEYS == <<"source_file", "page", "raw_text", "question_type",
              "inline_equations", "local_images">>

\* line 95: pd.DataFrame(rows) takes its columns from the dicts' keys, so a
\* frame of no rows has no columns; line 104: to_excel(index=False) writes
\* the column names as the first sheet row
DataFrame(rows) ==
    [columns |-> IF rows = <<>> THEN <<>> ELSE ROW_KEYS, data |-> rows]

(***************************************************************************)
(* State.                                                                  *)
(***************************************************************************)
VARIABLES
    tasks,     \* the registry: task id -> [status, percent, log, file]
    store,     \* UPLOAD_DIR: upload token -> the stored document, a sequence of
               \* pages [text, ocr, eng, images]: the native text, what OCR reads
               \* under 'chi_sim+eng' and under 'eng', the ext of each embedded image
    queue,     \* work queue of the executor: <<task_id, save_path>>, oldest first
    wpc,       \* per pool thread: the statement it is about to execute
    wtask,     \* per pool thread: task_id of the running process_task (0: none)
    wpath,     \* per pool thread: saved_path of the running process_task
    wpno,      \* per pool thread: pno of the page loop
    wtotal,    \* per pool thread: total = len(doc)
    wexc,      \* per pool thread: the exception being handled ("" : none)
    wpage,     \* per pool thread: text and ocr_text of the page in work
    wrows,     \* per pool thread: rows of extract_single_pdf_to_df
    imgdir,    \* IMG_DIR: file name -> the task ids that wrote it, in write order
    outdir,    \* OUTPUT_DIR: file path -> the tables written to it, in write order
    call,      \* a call of a pure function of app.py: [fn, arg, out]
    resp       \* response of the handler that ran in the last step (NoResp: none)

vars == <<tasks, store, queue, wpc, wtask, wpath, wpno, wtotal, wexc, wpage,
          wrows, imgdir, outdir, call, resp>>
wvars == <<wpc, wtask, wpath, wpno, wtotal, wexc, wpage, wrows>>
fvars == <<imgdir, outdir>>

NoResp == [code |-> 0, op |-> "none", handle |-> 0, body |-> <<>>]
NoPath == SavePath(0, <<>>)
NoPage == [text |-> <<>>, ocr_text |-> <<>>]
NoCall == [fn |-> "none", arg |-> <<>>, out |-> <<>>]

\* the state of the service after start-up (line 11-29)
Started ==
    /\ tasks = <<>>
    /\ store = <<>>
    /\ queue = <<>>
    /\ wpc = [w \in Workers |-> "idle"]
    /\ wtask = [w \in Workers |-> 0]
    /\ wpath = [w \in Workers |-> NoPath]
    /\ wpno = [w \in Workers |-> 0]
    /\ wtotal = [w \in Workers |-> 0]
    /\ wexc = [w \in Workers |-> ""]
    /\ wpage = [w \in Workers |-> NoPage]
    /\ wrows = [w \in Workers |-> <<>>]
    /\ imgdir = <<>>
    /\ outdir = <<>>
    /\ resp = NoResp

Init == Started /\ call = NoCall

(***************************************************************************)
(* Writes to a job record.                                                 *)
(***************************************************************************)
SetStatus(task_id, status) == [tasks EXCEPT ![task_id].status = status]
SetFile(task_id, path) == [tasks EXCEPT ![task_id].file = path]

\* update_progress, line 40-43: the percent write
SetPercent(task_id, percent) ==
    IF task_id \notin DOMAIN tasks THEN tasks
    ELSE [tasks EXCEPT ![task_id].percent = percent]

\* mutant: every job record shares one log list
AppendLogShared(task_id, entry) ==
    [t \in DOMAIN tasks |-> [tasks[t] EXCEPT !.log = Append(@, entry)]]

\* list.append on the job's own log (line 45, line 110)
AppendLog(task_id, entry) ==
    [tasks EXCEPT ![task_id].log = Append(@, entry)]

\* update_progress, line 40 and 44-45: the log write
LogMessage(task_id, entry) ==
    IF task_id \notin DOMAIN tasks THEN tasks ELSE AppendLog(task_id, entry)

\* the document the thread has open (line 49)
Doc(w) == store[wpath[w].token]

\* a write of `content` to the file `name` of directory dir
Write(dir, name, content) ==
    IF name \in DOMAIN dir THEN [dir EXCEPT ![name] = Append(@, content)]
    ELSE (name :> <<content>>) @@ dir

\* the writes of `content` to the files `names`, in order
WriteAll(dir, names, content) ==
    [name \in DOMAIN dir \cup {names[i] : i \in 1..Len(names)} |->
       (IF name \in DOMAIN dir THEN dir[name] ELSE <<>>)
         \o [k \in 1..Cardinality({i \in 1..Len(names) : names[i] = name}) |-> content]]

\* the thread goes to statement pc
Goto(w, pc) == wpc' = [wpc EXCEPT ![w] = pc]

\* an exception leaves the try body: control goes to line 108-109
Raise(w, exc) ==
    /\ Goto(w, "set_error")
    /\ wexc' = [wexc EXCEPT ![w] = exc]

\* process_task returns: the pool thread waits for the next work item
Return(w) ==
    /\ Goto(w, "idle")
    /\ wtask' = [wtask EXCEPT ![w] = 0]
    /\ wpath' = [wpath EXCEPT ![w] = NoPath]
    /\ wpno' = [wpno EXCEPT ![w] = 0]
    /\ wtotal' = [wtotal EXCEPT ![w] = 0]
    /\ wexc' = [wexc EXCEPT ![w] = ""]
    /\ wpage' = [wpage EXCEPT ![w] = NoPage]
    /\ wrows' = [wrows EXCEPT ![w] = <<>>]

(***************************************************************************)
(* The pool: ThreadPoolExecutor(max_workers=2).  submit() appends to an    *)
(* unbounded FIFO work queue; an idle thread takes the oldest item.        *)
(***************************************************************************)
\* mutant: the work item is dropped when every thread is busy
SubmitDropped(q, item) ==
    IF \A w \in Workers : wpc[w] # "idle" THEN q ELSE Append(q, item)

\* executor.submit (line 133)
Submit(q, item) == Append(q, item)

\* mutant: an idle thread takes the newest work item
DequeueNewest(w) ==
    /\ wpc[w] = "idle"
    /\ queue # <<>>
    /\ queue' = SubSeq(queue, 1, Len(queue) - 1)
    /\ wtask' = [wtask EXCEPT ![w] = queue[Len(queue)][1]]
    /\ wpath' = [wpath EXCEPT ![w] = queue[Len(queue)][2]]
    /\ Goto(w, "set_processing")
    /\ resp' = NoResp
    /\ UNCHANGED <<wpage, wrows, imgdir, outdir, call>>
    /\ UNCHANGED <<tasks, store, wpno, wtotal, wexc>>

\* a pool thread takes the oldest work item (queue.get in the pool's worker)
Dequeue(w) ==
    /\ wpc[w] = "idle"
    /\ queue # <<>>
    /\ queue' = Tail(queue)
    /\ wtask' = [wtask EXCEPT ![w] = Head(queue)[1]]
    /\ wpath' = [wpath EXCEPT ![w] = Head(queue)[2]]
    /\ Goto(w, "set_processing")
    /\ resp' = NoResp
    /\ UNCHANGED <<wpage, wrows, imgdir, outdir, call>>
    /\ UNCHANGED <<tasks, store, wpno, wtotal, wexc>>

(***************************************************************************)
(* process_task (line 98-110), one statement or field write per action.    *)
(***************************************************************************)
\* line 100: tasks[task_id]['status'] = 'processing'
SetProcessing(w) ==
    /\ wpc[w] = "set_processing"
    /\ tasks' = SetStatus(wtask[w], "processing")
    /\ Goto(w, "start_percent")
    /\ resp' = NoResp
    /\ UNCHANGED <<wpage, wrows, imgdir, outdir, call>>
    /\ UNCHANGED <<store, queue, wtask, wpath, wpno, wtotal, wexc>>

\* line 101 -> 42-43: percent = int(1)
StartPercent(w) ==
    /\ wpc[w] = "start_percent"
    /\ tasks' = SetPercent(wtask[w], START_PERCENT)
    /\ Goto(w, "start_log")
    /\ resp' = NoResp
    /\ UNCHANGED <<wpage, wrows, imgdir, outdir, call>>
    /\ UNCHANGED <<store, queue, wtask, wpath, wpno, wtotal, wexc>>

\* line 101 -> 44-45: log "start processing"
StartLog(w) ==
    /\ wpc[w] = "start_log"
    /\ tasks' = LogMessage(wtask[w], StartMsg)
    /\ Goto(w, "open")
    /\ resp' = NoResp
    /\ UNCHANGED <<wpage, wrows, imgdir, outdir, call>>
    /\ UNCHANGED <<store, queue, wtask, wpath, wpno, wtotal, wexc>>

\* line 49-51: doc = fitz.open(pdf_path); total = len(doc); pno = 0
OpenDoc(w) ==
    /\ wpc[w] = "open"
    /\ \/ /\ wtotal' = [wtotal EXCEPT ![w] = Len(store[wpath[w].token])]
          /\ wpno' = [wpno EXCEPT ![w] = 0]
          /\ Goto(w, IF Len(store[wpath[w].token]) > 0 THEN "render" ELSE "to_excel")
          /\ UNCHANGED wexc
       \/ /\ Raise(w, EXC_OPEN)
          /\ UNCHANGED <<wtotal, wpno>>
    /\ resp' = NoResp
    /\ UNCHANGED <<wpage, wrows, imgdir, outdir, call>>
    /\ UNCHANGED <<tasks, store, queue, wtask, wpath>>

\* line 52-55: page text, pixmap, image
RenderPage(w) ==
    /\ wpc[w] = "render"
    /\ \/ /\ wpage' = [wpage EXCEPT ![w].text = Doc(w)[wpno[w] + 1].text]
          /\ Goto(w, "ocr")
          /\ UNCHANGED wexc
       \/ /\ Raise(w, EXC_RENDER)
          /\ UNCHANGED wpage
    /\ resp' = NoResp
    /\ UNCHANGED <<wrows, imgdir, outdir, call>>
    /\ UNCHANGED <<tasks, store, queue, wtask, wpath, wpno, wtotal>>

\* line 56-58: OCR with lang='chi_sim+eng'; any exception is caught
OcrPrimary(w) ==
    /\ wpc[w] = "ocr"
    /\ \/ /\ wpage' = [wpage EXCEPT ![w].ocr_text = Doc(w)[wpno[w] + 1].ocr]
          /\ Goto(w, "save_images")
       \/ /\ Goto(w, "ocr_fallback")
          /\ UNCHANGED wpage
    /\ resp' = NoResp
    /\ UNCHANGED <<wrows, imgdir, outdir, call>>
    /\ UNCHANGED <<tasks, store, queue, wtask, wpath, wpno, wtotal, wexc>>

\* line 59: OCR with lang='eng', inside the except clause: an exception here
\* is not caught in extract_single_pdf_to_df
OcrFallback(w) ==
    /\ wpc[w] = "ocr_fallback"
    /\ \/ /\ wpage' = [wpage EXCEPT ![w].ocr_text = Doc(w)[wpno[w] + 1].eng]
          /\ Goto(w, "save_images")
          /\ UNCHANGED wexc
       \/ /\ Raise(w, EXC_OCR)
          /\ UNCHANGED wpage
    /\ resp' = NoResp
    /\ UNCHANGED <<wrows, imgdir, outdir, call>>
    /\ UNCHANGED <<tasks, store, queue, wtask, wpath, wpno, wtotal>>

\* line 60-90: save the page image and the embedded images, build the rows
SaveImages(w) ==
    /\ wpc[w] = "save_images"
    /\ \E images \in {Doc(w)[wpno[w] + 1].images} :
       \E writes \in {PageWrites(wpath[w], wpno[w], images)} :
         \/ /\ imgdir' = WriteAll(imgdir, writes, wtask[w])
            /\ wrows' = [wrows EXCEPT ![w] = @ \o
                  PageRows(wpath[w], wpno[w],
                           Combined(wpage[w].text, wpage[w].ocr_text), images)]
            /\ Goto(w, "page_percent")
            /\ UNCHANGED wexc
         \* img.save, doc.extract_image or open raises: the files before
         \* the failing one are written
         \/ \E n \in 0..(Len(writes) - 1) :
              /\ imgdir' = WriteAll(imgdir, SubSeq(writes, 1, n), wtask[w])
              /\ Raise(w, EXC_SAVE)
              /\ UNCHANGED wrows
    /\ resp' = NoResp
    /\ UNCHANGED <<wpage, outdir, call>>
    /\ UNCHANGED <<tasks, store, queue, wtask, wpath, wpno, wtotal>>

\* line 92-93 -> 42-43: percent = int(pct)
PagePercent(w) ==
    /\ wpc[w] = "page_percent"
    /\ tasks' = SetPercent(wtask[w], PagePct(wpno[w] + 1, wtotal[w]))
    /\ Goto(w, "page_log")
    /\ resp' = NoResp
    /\ UNCHANGED <<wpage, wrows, imgdir, outdir, call>>
    /\ UNCHANGED <<store, queue, wtask, wpath, wpno, wtotal, wexc>>

\* line 93 -> 44-45: log "processed page {pno+1}/{total}"; line 51: next pno
PageLog(w) ==
    /\ wpc[w] = "page_log"
    /\ tasks' = LogMessage(wtask[w], PageMsg(wpno[w] + 1, wtotal[w]))
    /\ wpno' = [wpno EXCEPT ![w] = @ + 1]
    /\ Goto(w, IF wpno[w] + 1 < wtotal[w] THEN "render" ELSE "to_excel")
    /\ resp' = NoResp
    /\ UNCHANGED <<wpage, wrows, imgdir, outdir, call>>
    /\ UNCHANGED <<store, queue, wtask, wpath, wtotal, wexc>>

\* mutant: the path is recorded as soon as the table is written
ToExcelRecordsPath(w) ==
    /\ wpc[w] = "to_excel"
    /\ \/ /\ outdir' = Write(outdir, OutPath(wtask[w]), DataFrame(wrows[w]))
          /\ tasks' = SetFile(wtask[w], OutPath(wtask[w]))
          /\ Goto(w, "set_done")
          /\ UNCHANGED wexc
       \/ /\ Raise(w, EXC_WRITE)
          /\ UNCHANGED <<outdir, tasks>>
    /\ resp' = NoResp
    /\ UNCHANGED <<wpage, wrows, imgdir, call>>
    /\ UNCHANGED <<store, queue, wtask, wpath, wpno, wtotal>>

\* line 94-96, 103-104: close, DataFrame, df.to_excel(out_path)
ToExcel(w) ==
    /\ wpc[w] = "to_excel"
    /\ \/ /\ outdir' = Write(outdir, OutPath(wtask[w]), DataFrame(wrows[w]))
          /\ Goto(w, "set_done")
          /\ UNCHANGED wexc
       \/ /\ Raise(w, EXC_WRITE)
          /\ UNCHANGED outdir
    /\ resp' = NoResp
    /\ UNCHANGED <<wpage, wrows, imgdir, call>>
    /\ UNCHANGED <<tasks, store, queue, wtask, wpath, wpno, wtotal>>

\* line 105: tasks[task_id]['status'] = 'done'
SetDone(w) ==
    /\ wpc[w] = "set_done"
    /\ tasks' = SetStatus(wtask[w], "done")
    /\ Goto(w, "set_file")
    /\ resp' = NoResp
    /\ UNCHANGED <<wpage, wrows, imgdir, outdir, call>>
    /\ UNCHANGED <<store, queue, wtask, wpath, wpno, wtotal, wexc>>

\* line 106: tasks[task_id]['file'] = out_path
SetResultFile(w) ==
    /\ wpc[w] = "set_file"
    /\ tasks' = SetFile(wtask[w], OutPath(wtask[w]))
    /\ Goto(w, "done_percent")
    /\ resp' = NoResp
    /\ UNCHANGED <<wpage, wrows, imgdir, outdir, call>>
    /\ UNCHANGED <<store, queue, wtask, wpath, wpno, wtotal, wexc>>

\* mutant: the progress update after 'done' may raise into the except branch
DonePercentRaises(w) ==
    /\ wpc[w] = "done_percent"
    /\ \/ /\ tasks' = SetPercent(wtask[w], DONE_PERCENT)
          /\ Goto(w, "done_log")
          /\ UNCHANGED wexc
       \/ /\ Raise(w, EXC_WRITE)
          /\ UNCHANGED tasks
    /\ resp' = NoResp
    /\ UNCHANGED <<wpage, wrows, imgdir, outdir, call>>
    /\ UNCHANGED <<store, queue, wtask, wpath, wpno, wtotal>>

\* line 107 -> 42-43: percent = int(100)
DonePercent(w) ==
    /\ wpc[w] = "done_percent"
    /\ tasks' = SetPercent(wtask[w], DONE_PERCENT)
    /\ Goto(w, "done_log")
    /\ resp' = NoResp
    /\ UNCHANGED <<wpage, wrows, imgdir, outdir, call>>
    /\ UNCHANGED <<store, queue, wtask, wpath, wpno, wtotal, wexc>>

\* line 107 -> 44-45: log "finished processing"; process_task returns
DoneLog(w) ==
    /\ wpc[w] = "done_log"
    /\ tasks' = LogMessage(wtask[w], FinishedMsg)
    /\ Return(w)
    /\ resp' = NoResp
    /\ UNCHANGED <<imgdir, outdir, call>>
    /\ UNCHANGED <<store, queue>>

\* line 108-109: tasks[task_id]['status'] = 'error'
SetError(w) ==
    /\ wpc[w] = "set_error"
    /\ tasks' = SetStatus(wtask[w], "error")
    /\ Goto(w, "error_log")
    /\ resp' = NoResp
    /\ UNCHANGED <<wpage, wrows, imgdir, outdir, call>>
    /\ UNCHANGED <<store, queue, wtask, wpath, wpno, wtotal, wexc>>

\* mutant: the except branch returns without logging the exception
ErrorLogSkipped(w) ==
    /\ wpc[w] = "error_log"
    /\ Return(w)
    /\ resp' = NoResp
    /\ UNCHANGED <<imgdir, outdir, call>>
    /\ UNCHANGED <<tasks, store, queue>>

\* line 110: tasks[task_id]['log'].append(str(e)); process_task returns
ErrorLog(w) ==
    /\ wpc[w] = "error_log"
    /\ tasks' = AppendLog(wtask[w], ErrorMsg(wexc[w]))
    /\ Return(w)
    /\ resp' = NoResp
    /\ UNCHANGED <<imgdir, outdir, call>>
    /\ UNCHANGED <<store, queue>>

\* one step of pool thread w
WorkerStep(w) ==
    \/ Dequeue(w)
    \/ SetProcessing(w)
    \/ StartPercent(w)
    \/ StartLog(w)
    \/ OpenDoc(w)
    \/ RenderPage(w)
    \/ OcrPrimary(w)
    \/ OcrFallback(w)
    \/ SaveImages(w)
    \/ PagePercent(w)
    \/ PageLog(w)
    \/ ToExcel(w)
    \/ SetDone(w)
    \/ SetResultFile(w)
    \/ DonePercent(w)
    \/ DoneLog(w)
    \/ SetError(w)
    \/ ErrorLog(w)

(***************************************************************************)
(* HTTP handlers.                                                          *)
(***************************************************************************)
\* uuid.uuid4().hex: an id no upload has been given yet
FreshId == Cardinality(DOMAIN store) + 1

NewTask(filename) ==
    [status |-> "queued", percent |-> 0, log |-> <<Uploaded(filename)>>, file |-> NoFile]

\* mutant: the file is written to UPLOAD_DIR before its name is tested
UploadPdfStoresFirst(filename, doc) ==
    IF HasSep(filename)
    THEN /\ resp' = [code |-> 500, op |-> "upload", handle |-> 0, body |-> <<"error">>]
         /\ UNCHANGED <<tasks, store, queue, wvars, fvars, call>>
    ELSE /\ store' = (FreshId :> doc) @@ store
         /\ UNCHANGED <<wvars, fvars, call>>
         /\ IF ~IsPdfName(filename)
            THEN /\ resp' = [code |-> 400, op |-> "upload", handle |-> 0,
                             body |-> <<"error">>]
                 /\ UNCHANGED <<tasks, queue>>
            ELSE /\ tasks' = (FreshId :> NewTask(filename)) @@ tasks
                 /\ queue' = Submit(queue, <<FreshId, SavePath(FreshId, filename)>>)
                 /\ resp' = [code |-> 200, op |-> "upload", handle |-> FreshId,
                             body |-> <<"task_id">>]

\* POST /upload (line 112-134) with a file named filename holding the
\* document doc
UploadPdf(filename, doc) ==
    IF ~IsPdfName(filename)
    THEN /\ resp' = [code |-> 400, op |-> "upload", handle |-> 0, body |-> <<"error">>]
         /\ UNCHANGED <<tasks, store, queue, wvars, fvars, call>>
    \* line 122: no directory {uuid}_... exists under UPLOAD_DIR, open() raises
    ELSE IF HasSep(filename)
    THEN /\ resp' = [code |-> 500, op |-> "upload", handle |-> 0, body |-> <<"error">>]
         /\ UNCHANGED <<tasks, store, queue, wvars, fvars, call>>
    ELSE /\ store' = (FreshId :> doc) @@ store
         /\ tasks' = (FreshId :> NewTask(filename)) @@ tasks
         /\ queue' = Submit(queue, <<FreshId, SavePath(FreshId, filename)>>)
         /\ resp' = [code |-> 200, op |-> "upload", handle |-> FreshId, body |-> <<"task_id">>]
         /\ UNCHANGED <<wvars, fvars, call>>

\* mutant: tasks.get(task_id, default) with a fresh default record
TasksGetDefault(task_id) ==
    IF task_id \in DOMAIN tasks THEN <<tasks[task_id]>> ELSE <<NewTask(<<>>)>>

\* tasks.get(task_id): the record, or None for an unknown key
TasksGet(task_id) == IF task_id \in DOMAIN tasks THEN <<tasks[task_id]>> ELSE <<>>

\* mutant: the lookup is tasks.setdefault(task_id, record), which files a
\* record under an unknown handle
GetProgressSetDefault(task_id) ==
    /\ resp' = [code |-> 200, op |-> "progress", handle |-> task_id,
                body |-> TasksGetDefault(task_id)]
    /\ tasks' = IF task_id \in DOMAIN tasks THEN tasks
                ELSE (task_id :> NewTask(<<>>)) @@ tasks
    /\ UNCHANGED <<store, queue, wvars, fvars, call>>

\* GET /progress/{task_id} (line 136-141)
GetProgress(task_id) ==
    /\ resp' = IF TasksGet(task_id) = <<>>
               THEN [code |-> 404, op |-> "progress", handle |-> task_id, body |-> <<"error">>]
               ELSE [code |-> 200, op |-> "progress", handle |-> task_id, body |-> TasksGet(task_id)]
    /\ UNCHANGED <<tasks, store, queue, wvars, fvars, call>>

\* GET /download/{task_id} (line 143-154)
DownloadResult(task_id) ==
    /\ resp' = IF TasksGet(task_id) = <<>>
               THEN [code |-> 404, op |-> "download", handle |-> task_id, body |-> <<"error">>]
               ELSE IF TasksGet(task_id)[1].status # "done" \/ TasksGet(task_id)[1].file = NoFile
               THEN [code |-> 400, op |-> "download", handle |-> task_id, body |-> <<"error">>]
               ELSE [code |-> 200, op |-> "download", handle |-> task_id,
                     body |-> <<TasksGet(task_id)[1].file>>]
    /\ UNCHANGED <<tasks, store, queue, wvars, fvars, call>>

(***************************************************************************)
(* Specifications.                                                         *)
(***************************************************************************)
\* a page without text, which OCR reads as empty, and without images
BlankPage == [text |-> <<>>, ocr |-> <<>>, eng |-> <<>>, images |-> <<>>]
\* the document of n pages `page`
Copies(page, n) == [i \in 1..n |-> page]

\* uploads of documents of 1..MaxPages pages, up to MaxJobs jobs
Upload ==
    /\ Cardinality(DOMAIN tasks) < MaxJobs
    /\ \E filename \in {<<"a", ".", "p", "d", "f">>, <<"a", ".", "t", "x", "t">>} :
         \E pages \in 1..MaxPages : UploadPdf(filename, Copies(BlankPage, pages))

Work == \E w \in Workers : WorkerStep(w)

Next == Upload \/ Work

Spec == Init /\ [][Next]_vars

\* the pool threads are scheduled fairly
LiveSpec == Spec /\ \A w \in Workers : WF_vars(WorkerStep(w))

\* one upload of a document of 1..BigPages pages
UploadBig ==
    /\ DOMAIN tasks = {}
    /\ \E pages \in 1..BigPages :
         UploadPdf(<<"a", ".", "p", "d", "f">>, Copies(BlankPage, pages))

NextBig == UploadBig \/ Work

SpecBig == Init /\ [][NextBig]_vars

\* the handlers under concurrent polling: up to ApiJobs accepted uploads,
\* uploads under the other file names at any time, and progress and download
\* queries for known and unknown handles
Handles == 1..(ApiJobs + 1)

UploadApi ==
    \E filename \in PdfNames \cup OtherNames :
      /\ Cardinality(DOMAIN tasks) < ApiJobs \/ ~IsPdfName(filename)
      /\ \E pages \in 1..MaxPages : UploadPdf(filename, Copies(BlankPage, pages))

Progress == \E task_id \in Handles : GetProgress(task_id)

Download == \E task_id \in Handles : DownloadResult(task_id)

NextApi == UploadApi \/ Work \/ Progress \/ Download

SpecApi == Init /\ [][NextApi]_vars

\* one upload of a document of 1..MaxPages pages, each page one of: blank;
\* whitespace only; two numbered questions with an embedded image, where
\* OCR reads nothing under 'chi_sim+eng'; unmarked text that only OCR reads
PNG == <<"p", "n", "g">>
PageKinds ==
    {BlankPage,
     [text |-> <<" ">>, ocr |-> <<"\n">>, eng |-> <<>>, images |-> <<>>],
     [text |-> <<"1", ".", "A", ".", "a", "\n", "2", ".", "_", "_">>,
      ocr |-> <<>>, eng |-> <<"x">>, images |-> <<PNG>>],
     [text |-> <<>>, ocr |-> <<"a", " ">>, eng |-> <<"a">>, images |-> <<>>]}

Docs == UNION {[1..n -> PageKinds] : n \in 1..MaxPages}

UploadDoc ==
    /\ DOMAIN tasks = {}
    /\ \E doc \in Docs : UploadPdf(<<"a", ".", "p", "d", "f">>, doc)

NextDoc == UploadDoc \/ Work

SpecDoc == Init /\ [][NextDoc]_vars

\* up to FileJobs uploads, under the same or different names, of documents
\* of 1..MaxPages pages that hold no, one or two embedded images per page;
\* a name with a directory part is among the names
SLASH_NAME == <<"d", "/", "a", ".", "p", "d", "f">>
ImagePage(exts) == [text |-> <<>>, ocr |-> <<>>, eng |-> <<>>, images |-> exts]
FileDocs ==
    {Copies(ImagePage(exts), n) :
       n \in 1..MaxPages, exts \in {<<>>, <<PNG>>, <<PNG, <<"j", "p", "e", "g">>>>}}

UploadFiles ==
    /\ Cardinality(DOMAIN tasks) < FileJobs
    /\ \E filename \in PdfNames \cup {SLASH_NAME} :
         \E doc \in FileDocs : UploadPdf(filename, doc)

NextFiles == UploadFiles \/ Work

SpecFiles == Init /\ [][NextFiles]_vars

\* the texts of up to n characters of alphabet
TextsOver(alphabet, n) == UNION {[1..len -> alphabet] : len \in 0..n}

\* a call of fn that waits to be made with argument arg
Pending(fn, arg) == [fn |-> fn, arg |-> arg, out |-> <<"pending">>]

\* the call is made: out holds what fn returns
Apply(fn, result) ==
    /\ call.fn = fn
    /\ call.out = <<"pending">>
    /\ call' = [call EXCEPT !.out = <<result>>]
    /\ UNCHANGED <<tasks, store, queue, wvars, fvars, resp>>

\* classify_question on None and on every text of up to MaxText characters
\* out of the characters its patterns name, a space and a letter
ClassifyChars ==
    {"A", ".", "_", "U+FF3F", "U+9009", "U+62E9", "U+586B", "U+7A7A", "U+683C",
     " ", "x"}

InitClassify ==
    /\ Started
    /\ call \in {Pending("classify_question", arg) :
                   arg \in {None} \cup {Some(text) : text \in TextsOver(ClassifyChars, MaxText)}}

Classify == Apply("classify_question", classify_question(call.arg))

SpecClassify == InitClassify /\ [][Classify]_vars

\* line 76-80 on every text of up to MaxText characters out of whitespace,
\* a digit, a CJK numeral, the stops of the markers and a letter
SplitChars == {" ", "\n", "1", ".", "U+3001", "U+4E00", "U+FF0E", "a"}

InitSplit ==
    /\ Started
    /\ call \in {Pending("split", text) : text \in TextsOver(SplitChars, MaxText)}

Split == Apply("split", Segments(ReSplit(call.arg)))

SpecSplit == InitSplit /\ [][Split]_vars

(***************************************************************************)
(* Derived notions used by the properties.                                 *)
(***************************************************************************)
Jobs == DOMAIN tasks
Status(t) == tasks[t].status
Holder(t) == {w \in Workers : wtask[w] = t}
Queued(t) == \E i \in 1..Len(queue) : queue[i][1] = t
Processing == {t \in Jobs : Status(t) = "processing"}
Last(s) == s[Len(s)]
Front(s) == SubSeq(s, 1, Len(s) - 1)
IsPrefix(s1, s2) == Len(s1) <= Len(s2) /\ SubSeq(s2, 1, Len(s1)) = s1
\* the pool thread that takes the step, if one does
Stepping(w) == wpc'[w] # wpc[w]

(***************************************************************************)
(* C1: for every job the status changes only queued -> processing,         *)
(* processing -> done or processing -> error; a done or error job keeps    *)
(* its status and no job returns to queued or re-enters processing.        *)
(***************************************************************************)
C1_StatusTransitions ==
    [][\A t \in Jobs :
         tasks'[t].status # tasks[t].status =>
           <<tasks[t].status, tasks'[t].status>> \in
             {<<"queued", "processing">>, <<"processing", "done">>,
              <<"processing", "error">>}]_vars

\* a job has finished done, another has finished in error, a third is running
C1_Witness ==
    \E a, b, c \in Jobs :
      /\ Status(a) = "done" /\ Holder(a) = {}
      /\ Status(b) = "error" /\ Holder(b) = {}
      /\ Status(c) = "processing"

(***************************************************************************)
(* C2: the percent values written to a job while it is processing never    *)
(* decrease, for every page count, and a job that succeeds ends with       *)
(* percent 100.                                                            *)
(***************************************************************************)
C2_PercentMonotone ==
    [][\A t \in Jobs :
         /\ (tasks[t].status = "processing" /\ tasks'[t].status = "processing")
              => tasks'[t].percent >= tasks[t].percent
         /\ (tasks'[t].status = "done" /\ \A w \in Workers : wtask'[w] # t)
              => tasks'[t].percent = DONE_PERCENT]_vars

(***************************************************************************)
(* C3: in every reachable state a job's result path is non-null if and     *)
(* only if its status is done.                                             *)
(***************************************************************************)
C3_FileIffDone ==
    \A t \in Jobs : (tasks[t].file # NoFile) <=> (Status(t) = "done")

(***************************************************************************)
(* C4: when a step of the job body raises, the job ends in status error,   *)
(* the str() of the exception is the last entry of its log, its result     *)
(* path stays null and the job is not executed again.                      *)
(***************************************************************************)
C4_FailureEndsInError ==
    /\ [](\A t \in Jobs :
            Status(t) = "error" =>
              /\ tasks[t].file = NoFile
              /\ ~Queued(t)
              /\ \A w \in Holder(t) : wpc[w] = "error_log"
              /\ Holder(t) = {} =>
                   Last(tasks[t].log) \in {ErrorMsg(exc) : exc \in Exceptions})
    /\ [][\A w \in Workers :
            wexc[w] # "" =>
              /\ tasks'[wtask[w]].status # "done"
              /\ tasks'[wtask[w]].file = NoFile
              /\ wpc'[w] # "idle" =>
                   wpc'[w] \in {"set_error", "error_log"} /\ wexc'[w] = wexc[w]
              /\ wpc'[w] = "idle" =>
                   /\ tasks'[wtask[w]].status = "error"
                   /\ Last(tasks'[wtask[w]].log) = ErrorMsg(wexc[w])]_vars

\* a job has ended in error on a failure after its first page was logged, and
\* the pool has gone on to run another job
C4_Witness ==
    \E t, u \in Jobs :
      /\ Status(t) = "error" /\ Holder(t) = {}
      /\ Last(tasks[t].log) = ErrorMsg(EXC_SAVE)
      /\ Len(tasks[t].log) > 3
      /\ Status(u) = "done" /\ u > t

(***************************************************************************)
(* C5: a failure of OCR alone never drives a job to status error: after    *)
(* the retry under 'eng' fails the page's OCR text is empty and the        *)
(* remaining pages are processed.                                          *)
(***************************************************************************)
C5_OcrNeverFatal ==
    \A t \in Jobs :
      Status(t) = "error" =>
        /\ \A w \in Holder(t) : wexc[w] # EXC_OCR
        /\ Holder(t) = {} => Last(tasks[t].log) # ErrorMsg(EXC_OCR)

(***************************************************************************)
(* C6: once a job is done or error, every later step leaves its status,    *)
(* percent and result path unchanged; its log may only be appended to.     *)
(***************************************************************************)
C6_TerminalImmutable ==
    [][\A t \in Jobs :
         Status(t) \in Terminal =>
           /\ tasks'[t].status = tasks[t].status
           /\ tasks'[t].percent = tasks[t].percent
           /\ tasks'[t].file = tasks[t].file
           /\ IsPrefix(tasks[t].log, tasks'[t].log)]_vars

(***************************************************************************)
(* C7: at most max_workers jobs are processing in any state; an upload is  *)
(* accepted in every state, whatever the number of waiting jobs, and every *)
(* queued job waits in the work queue or has just been taken by a thread.  *)
(***************************************************************************)
C7_BoundedExecution ==
    /\ Cardinality(Processing) <= max_workers
    /\ ENABLED UploadPdf(<<"a", ".", "p", "d", "f">>, 1)
    /\ \A t \in Jobs :
         Status(t) = "queued" =>
           \/ Queued(t) /\ Holder(t) = {}
           \/ ~Queued(t) /\ \E w \in Workers : wtask[w] = t /\ wpc[w] = "set_processing"

\* both threads are processing and a further accepted job waits as queued
C7_Witness ==
    /\ Cardinality(Processing) = max_workers
    /\ \E t \in Jobs : Status(t) = "queued" /\ Queued(t)
    /\ resp.op = "upload" /\ resp.code = 200

(***************************************************************************)
(* C8: under fair scheduling of the pool threads every submitted job       *)
(* eventually is done or error, also behind jobs that fail; no step takes  *)
(* a job out of the registry, and a job that is not finished is in the     *)
(* work queue or on a thread.                                              *)
(***************************************************************************)
C8_EveryJobTerminates ==
    /\ \A t \in 1..MaxJobs :
         (t \in Jobs) ~> (t \in Jobs /\ Status(t) \in Terminal /\ Holder(t) = {})
    /\ [][Jobs \subseteq DOMAIN tasks']_vars
    /\ [](\A t \in Jobs : Status(t) \notin Terminal => Queued(t) \/ Holder(t) # {})

\* the third job has finished although the two jobs before it failed
C8_Witness ==
    /\ Cardinality(Jobs) = MaxJobs
    /\ \A t \in Jobs : Holder(t) = {}
    /\ \E t \in Jobs :
         /\ Status(t) \in Terminal
         /\ Cardinality({u \in Jobs : u < t /\ Status(u) = "error"}) >= max_workers

(***************************************************************************)
(* C9: a step of one job's thread leaves every other job's record          *)
(* unchanged; each job's log holds exactly the entries produced for that   *)
(* job, in the order its thread produced them, and no progress or log      *)
(* update is lost.                                                         *)
(***************************************************************************)
\* the log of a job with document of n pages that runs to the end
FullLog(first, n) ==
    <<first, StartMsg>> \o [i \in 1..n |-> PageMsg(i, n)] \o <<FinishedMsg>>

InPageLoop == {"render", "ocr", "ocr_fallback", "save_images", "page_percent"}

C9_JobsIndependent ==
    /\ [](\A t \in Jobs :
            LET log == tasks[t].log
                full == FullLog(log[1], Len(store[t]))
                body == IF Last(log).msg \in Exceptions THEN Front(log) ELSE log
            IN  /\ log[1].msg = "uploaded"
                /\ IsPrefix(body, full)
                /\ (Status(t) = "queued") => (log = <<log[1]>> /\ tasks[t].percent = 0)
                /\ (Status(t) = "done" /\ Holder(t) = {}) =>
                     (log = full /\ tasks[t].percent = DONE_PERCENT)
                /\ \A w \in Holder(t) :
                     /\ wpc[w] \in InPageLoop => Len(log) = 2 + wpno[w]
                     /\ (wpc[w] \in InPageLoop /\ wpno[w] = 0) =>
                          tasks[t].percent = START_PERCENT
                     /\ (wpc[w] \in InPageLoop \ {"page_percent"} /\ wpno[w] > 0) =>
                          tasks[t].percent = PagePct(wpno[w], wtotal[w])
                     /\ wpc[w] = "page_log" =>
                          /\ Len(log) = 2 + wpno[w]
                          /\ tasks[t].percent = PagePct(wpno[w] + 1, wtotal[w])
                     /\ wpc[w] \in {"to_excel", "set_done", "set_file", "done_percent"} =>
                          Len(log) = 2 + wtotal[w])
    /\ [][\A t \in Jobs :
            tasks'[t] # tasks[t] =>
              /\ \E w \in Workers :
                   /\ wtask[w] = t
                   /\ Stepping(w)
                   /\ \A v \in Workers \ {w} : ~Stepping(v)
              /\ \A u \in Jobs \ {t} : tasks'[u] = tasks[u]
              /\ IsPrefix(tasks[t].log, tasks'[t].log)
              /\ Len(tasks'[t].log) <= Len(tasks[t].log) + 1]_vars

\* two jobs are in their page loops at once, each with pages already logged
C9_Witness ==
    \E a, b \in Jobs :
      /\ a # b
      /\ \E w \in Holder(a) : wpc[w] \in InPageLoop /\ wpno[w] > 0
      /\ \E w \in Holder(b) : wpc[w] = "page_log" /\ wpno[w] > 0

(***************************************************************************)
(* C10: a progress or download query for a handle no upload has returned   *)
(* answers not-found and never carries a job record.                       *)
(***************************************************************************)
C10_UnknownHandleNotFound ==
    (resp.op \in {"progress", "download"} /\ resp.handle \notin Jobs) =>
      (resp.code = 404 /\ resp.body = <<"error">>)

\* an unknown handle is queried while the registry holds a finished job
C10_Witness ==
    /\ resp.op = "download"
    /\ resp.handle \notin Jobs
    /\ \E t \in Jobs : Status(t) = "done" /\ tasks[t].file # NoFile

(***************************************************************************)
(* C11: for a known handle, in every reachable state, the download query   *)
(* answers with the result artifact when the job's status is done and      *)
(* with not-ready when the status is queued, processing or error.          *)
(***************************************************************************)
C11_DownloadByStatus ==
    (resp.op = "download" /\ resp.handle \in Jobs) =>
      IF Status(resp.handle) = "done"
      THEN resp.code = 200 /\ resp.body = <<OutPath(resp.handle)>>
      ELSE resp.code = 400

(***************************************************************************)
(* C12: a document whose every page yields empty fused text produces no    *)
(* rows, and when its job is done the result table is the header row of    *)
(* the six columns and no data rows.                                       *)
(***************************************************************************)
\* every page of doc has only whitespace as native and as recognized text
EmptyText(doc) ==
    \A i \in 1..Len(doc) :
      \A read \in {doc[i].ocr, doc[i].eng} :
        \A j \in 1..Len(doc[i].text \o read) :
          (doc[i].text \o read)[j] \in Whitespace

C12_EmptyDocHeaderOnly ==
    \A t \in Jobs :
      EmptyText(store[t]) =>
        /\ \A w \in Holder(t) : wrows[w] = <<>>
        /\ Status(t) = "done" =>
             outdir[OutPath(t)] = <<[columns |-> ROW_KEYS, data |-> <<>>]>>

(***************************************************************************)
(* C13: an upload whose file name does not end in ".pdf", in any case of   *)
(* the letters, is answered with an error and changes nothing: no job is   *)
(* added or modified, no file is stored and no work is scheduled.          *)
(***************************************************************************)
\* the last four characters of filename are ".pdf" in some case
NamedPdf(filename) ==
    /\ Len(filename) >= 4
    /\ filename[Len(filename) - 3] = "."
    /\ filename[Len(filename) - 2] \in {"p", "P"}
    /\ filename[Len(filename) - 1] \in {"d", "D"}
    /\ filename[Len(filename)] \in {"f", "F"}

C13_RejectedUploadNoEffect ==
    /\ [](\A t \in Jobs : NamedPdf(tasks[t].log[1].name))
    /\ [](\A i \in 1..Len(queue) : NamedPdf(queue[i][2].name))
    /\ [][resp'.op = "upload" =>
            IF resp'.code = 200
            THEN /\ resp'.handle \in DOMAIN tasks' \ DOMAIN tasks
                 /\ resp'.handle \in DOMAIN store' \ DOMAIN store
            ELSE /\ resp'.code = 400
                 /\ UNCHANGED <<tasks, store, queue, wvars, fvars>>]_vars

\* an upload is rejected while the job of an earlier upload is being processed
C13_Witness ==
    /\ resp.op = "upload"
    /\ resp.code = 400
    /\ \E t \in Jobs : Status(t) = "processing"

(***************************************************************************)
(* C14: in every reachable state a job whose status is queued, processing  *)
(* or error has a null result path: the path is never set before the       *)
(* status has become done.                                                 *)
(***************************************************************************)
C14_NoFileBeforeDone ==
    /\ [](\A t \in Jobs :
            Status(t) \in {"queued", "processing", "error"} => tasks[t].file = NoFile)
    /\ [][\A t \in Jobs :
            (tasks[t].file = NoFile /\ tasks'[t].file # NoFile) =>
              (tasks[t].status = "done" /\ tasks'[t].file = OutPath(t))]_vars

\* one job has failed after its table was due, one is being processed after
\* its pages are done, and one is done with its path set
C14_Witness ==
    \E a, b, c \in Jobs :
      /\ Status(a) = "error" /\ Last(tasks[a].log) = ErrorMsg(EXC_WRITE)
      /\ Status(b) = "processing" /\ \E w \in Holder(b) : wpc[w] = "set_done"
      /\ Status(c) = "done" /\ tasks[c].file = OutPath(c)

(***************************************************************************)
(* C15: a progress query or a download query, whether it answers with a    *)
(* record, with not-found or with not-ready, leaves the registry as it     *)
(* is: no job is added and no job's status, percent, log or result path    *)
(* changes.                                                                *)
(***************************************************************************)
C15_QueriesReadOnly ==
    [][resp'.op \in {"progress", "download"} =>
         /\ DOMAIN tasks' = DOMAIN tasks
         /\ \A t \in Jobs :
              /\ tasks'[t].status = tasks[t].status
              /\ tasks'[t].percent = tasks[t].percent
              /\ tasks'[t].log = tasks[t].log
              /\ tasks'[t].file = tasks[t].file
         /\ UNCHANGED <<store, queue, wvars, fvars>>]_vars

\* a download is answered not-ready while a pool thread is inside the page
\* loop of the job asked for
C15_Witness ==
    /\ resp.op = "download"
    /\ resp.code = 400
    /\ \E w \in Holder(resp.handle) : wpc[w] \in InPageLoop

(***************************************************************************)
(* C16: any two distinct jobs, also when they carry the same original      *)
(* file name and page count and run at the same time, write disjoint sets  *)
(* of file names into the image directory and the output directory, and    *)
(* within one job no file name is written twice: each page raster, each    *)
(* embedded image and the result table has a name of its own.              *)
(***************************************************************************)
\* the names in directory dir that job t has written to
WrittenBy(dir, t) ==
    {name \in DOMAIN dir : \E i \in 1..Len(dir[name]) : dir[name][i] = t}

\* the number of image files the first n pages of doc give rise to
RECURSIVE ImageCount(_, _)
ImageCount(doc, n) ==
    IF n = 0 THEN 0 ELSE ImageCount(doc, n - 1) + 1 + Len(doc[n].images)

C16_NamesDisjoint ==
    /\ \A name \in DOMAIN imgdir : Len(imgdir[name]) = 1
    /\ \A path \in DOMAIN outdir : Len(outdir[path]) = 1
    /\ \A a, b \in Jobs :
         a # b => WrittenBy(imgdir, a) \cap WrittenBy(imgdir, b) = {}
    /\ \A t \in Jobs :
         /\ \A w \in Holder(t) :
              wpc[w] \in {"page_percent", "page_log"} =>
                Cardinality(WrittenBy(imgdir, t)) = ImageCount(store[t], wpno[w] + 1)
         /\ Status(t) = "done" =>
              /\ Cardinality(WrittenBy(imgdir, t)) = ImageCount(store[t], Len(store[t]))
              /\ OutPath(t) \in DOMAIN outdir
              /\ \A u \in Jobs \ {t} : OutPath(u) # OutPath(t)

\* two jobs of the same file name and page count, with embedded images, have
\* both written the images of their second page while both are running
C16_Witness ==
    \E a, b \in Jobs :
      /\ a # b
      /\ tasks[a].log[1] = tasks[b].log[1]
      /\ store[a] = store[b]
      /\ Len(store[a]) = 2
      /\ Len(store[a][2].images) = 2
      /\ \E w \in Holder(a) : wpc[w] = "page_percent" /\ wpno[w] = 1
      /\ \E w \in Holder(b) : wpc[w] = "page_percent" /\ wpno[w] = 1

(***************************************************************************)
(* C17: classify_question returns one of the three labels for every        *)
(* input, None and the empty text included: multiple-choice when the text  *)
(* holds the word for "choose" or one of A. B. C. D., also when it holds   *)
(* blanks; otherwise fill-in-blank when it holds two underscore            *)
(* characters in a row or a word for "fill in the blank"; otherwise        *)
(* free-response.                                                          *)
(***************************************************************************)
C17_ClassifyPriority ==
    (call.fn = "classify_question" /\ call.out # <<"pending">>) =>
      LET text == IF call.arg = None THEN <<>> ELSE call.arg[1]
          pairs == {<<text[i], text[i + 1]>> : i \in 1..(Len(text) - 1)}
          choose == \E p \in pairs :
                      \/ p = <<"U+9009", "U+62E9">>
                      \/ p[1] \in {"A", "B", "C", "D"} /\ p[2] = "."
          blank == \E p \in pairs :
                     \/ p[1] \in {"_", "U+FF3F"} /\ p[2] \in {"_", "U+FF3F"}
                     \/ p = <<"U+586B", "U+7A7A">>
                     \/ p = <<"U+7A7A", "U+683C">>
      IN  /\ call.out[1] \in Labels
          /\ call.out[1] = LABEL_CHOICE <=> choose
          /\ call.out[1] = LABEL_FILL <=> (blank /\ ~choose)

\* a text that holds an option label and two underscores is multiple-choice
C17_Witness ==
    /\ call.fn = "classify_question"
    /\ call.arg = Some(<<"_", "_", "A", ".">>)
    /\ call.out = <<LABEL_CHOICE>>

(***************************************************************************)
(* C18: for every fused page text without a marker boundary at the start   *)
(* of a line, the empty and the whitespace-only text included, the split   *)
(* yields exactly one segment, the whole text without its leading and      *)
(* trailing whitespace.                                                    *)
(***************************************************************************)
\* no line of text starts, after optional whitespace, with digits and a
\* digit stop or with CJK numerals and a CJK stop
NoMarker(text) ==
    ~\E i \in 1..Len(text) : \E j \in i..Len(text) : \E k \in (j + 1)..Len(text) :
        /\ IsLineStart(text, i)
        /\ \A s \in i..(j - 1) : text[s] \in Whitespace
        /\ \/ (\A s \in j..(k - 1) : text[s] \in Digits) /\ text[k] \in DigitStops
           \/ (\A s \in j..(k - 1) : text[s] \in CjkNumerals) /\ text[k] \in CjkStops

\* segment is text without its leading and trailing whitespace
IsTrimOf(segment, text) ==
    \E i \in 1..Len(text) : \E j \in i..Len(text) :
      /\ segment = SubSeq(text, i, j)
      /\ text[i] \notin Whitespace
      /\ text[j] \notin Whitespace
      /\ \A s \in (1..(i - 1)) \cup ((j + 1)..Len(text)) : text[s] \in Whitespace

SplitDone == call.fn = "split" /\ call.out # <<"pending">>

C18_NoMarkerOneSegment ==
    (SplitDone /\ NoMarker(call.arg)) =>
      /\ Len(call.out[1]) = 1
      /\ \/ IsTrimOf(call.out[1][1], call.arg)
         \/ call.out[1][1] = <<>> /\ \A s \in 1..Len(call.arg) : call.arg[s] \in Whitespace

(***************************************************************************)
(* C18, amended: a text without a marker boundary that holds a character   *)
(* other than whitespace yields exactly one segment, the whole text        *)
(* without its leading and trailing whitespace; the empty and the          *)
(* whitespace-only text yield no segment.                                  *)
(***************************************************************************)
C18_NoMarkerOneSegmentUnlessBlank ==
    (SplitDone /\ NoMarker(call.arg)) =>
      IF \A s \in 1..Len(call.arg) : call.arg[s] \in Whitespace
      THEN call.out[1] = <<>>
      ELSE Len(call.out[1]) = 1 /\ IsTrimOf(call.out[1][1], call.arg)

\* a text with whitespace in front and a digit and a stop inside its line
\* comes back as one segment
C18_Witness ==
    /\ SplitDone
    /\ call.arg = <<" ", "a", "1", ".">>
    /\ call.out[1] = <<<<"a", "1", ".">>>>

(***************************************************************************)
(* C19: for a document of N >= 1 pages and every k in 1..N the percent     *)
(* stored right after page k is floor(k * 100 / N), a value in 0..100,     *)
(* and each page makes one progress update and one log entry, in the       *)
(* order of the pages.                                                     *)
(***************************************************************************)
C19_PercentIsFloor ==
    \A t \in Jobs : \A w \in Holder(t) :
      /\ wpc[w] = "page_log" =>
           /\ tasks[t].percent = ((wpno[w] + 1) * 100) \div wtotal[w]
           /\ tasks[t].percent \in 0..100
           /\ Len(tasks[t].log) = 2 + wpno[w]
      /\ wpc[w] \in InPageLoop \cup {"page_log", "to_excel"} =>
           \A k \in 1..(Len(tasks[t].log) - 2) :
             tasks[t].log[2 + k] = PageMsg(k, wtotal[w])

(***************************************************************************)
(* C20: jobs start in the order of their submission: when job a was        *)
(* submitted before job b, the status of b never becomes processing while  *)
(* the status of a is still queued.                                        *)
(***************************************************************************)
C20_StartInSubmissionOrder ==
    \A a, b \in Jobs :
      (a < b /\ Status(a) = "queued") => Status(b) # "processing"

(***************************************************************************)
(* C20, amended: the pool takes jobs from its work queue in the order of   *)
(* their submission: when job a was submitted before job b, no pool        *)
(* thread takes b while a still waits in the work queue; a thread that     *)
(* has taken a job has not yet set its status, so b may become processing  *)
(* while the status of a still reads queued, but only after a was taken.   *)
(***************************************************************************)
C20_TakenInSubmissionOrder ==
    /\ [](\A a, b \in Jobs : (a < b /\ Queued(a)) => Queued(b))
    /\ [](\A i, j \in 1..Len(queue) : i < j => queue[i][1] < queue[j][1])
    /\ [](\A t \in Jobs :
            Status(t) = "queued" =>
              \/ Queued(t)
              \/ \E w \in Holder(t) : wpc[w] = "set_processing")
    /\ [][\A w \in Workers :
            (wtask[w] = 0 /\ wtask'[w] # 0) =>
              /\ wtask'[w] = Head(queue)[1]
              /\ \A t \in Jobs : Queued(t) => wtask'[w] <= t]_vars

\* job 2 is processing while the status of job 1, already taken by the other
\* pool thread, still reads queued
C20_Witness ==
    \E a, b \in Jobs :
      /\ a < b
      /\ Status(a) = "queued"
      /\ ~Queued(a)
      /\ Status(b) = "processing"

====
